---- MODULE Spec2Model ----
(***************************************************************************)
(* A model of archivebot.py: the messages/users/channels tables, the       *)
(* process-wide directory cache ENV, the main loop, handle_message and     *)
(* handle_query (parser, search, context expansion, formatting).           *)
(*                                                                         *)
(* Python strings that the code inspects character by character (query     *)
(* text, message text, names, channel ids) are sequences of one-character  *)
(* strings.  Reply texts are sequences of pieces (see format_results).     *)
(* A timestamp is a natural number standing for the fixed-width decimal    *)
(* string Slack issues ("<seconds>.<fraction>"): on strings of one width   *)
(* the TEXT collation of the timestamp column is the numeric order.        *)
(***************************************************************************)
EXTENDS Integers, Sequences, FiniteSets, TLC

VARIABLES messages, users, channels, ENV, members,
          pc, ev, replaced, sent, selects, res, blocks, refreshes, raised, parsed, pending

vars == <<messages, users, channels, ENV, members,
          pc, ev, replaced, sent, selects, res, blocks, refreshes, raised, parsed, pending>>

-----------------------------------------------------------------------------
(* Bounds *)

MaxRows == 3      \* rows the messages table may hold
SubSec == 2       \* distinct timestamps within one second
MaxBatch == 2     \* events one rtm_read() may return

-----------------------------------------------------------------------------
(* Characters and strings *)

Lower(c) == IF c = "A" THEN "a" ELSE IF c = "B" THEN "b" ELSE c

LowerStr(s) == [i \in 1..Len(s) |-> Lower(s[i])]

IsSpace(c) == c = " "

RECURSIVE SplitWs(_, _, _)
\* str.split(): the maximal runs of non-whitespace characters, in order
SplitWs(s, cur, acc) ==
    IF s = << >> THEN (IF cur = << >> THEN acc ELSE Append(acc, cur))
    ELSE IF IsSpace(Head(s))
         THEN SplitWs(Tail(s), << >>, IF cur = << >> THEN acc ELSE Append(acc, cur))
         ELSE SplitWs(Tail(s), Append(cur, Head(s)), acc)

Split(s) == SplitWs(s, << >>, << >>)

RECURSIVE SplitOnAcc(_, _, _, _)
\* str.split(c): the pieces between occurrences of c, empty pieces kept
SplitOnAcc(s, c, cur, acc) ==
    IF s = << >> THEN Append(acc, cur)
    ELSE IF Head(s) = c
         THEN SplitOnAcc(Tail(s), c, << >>, Append(acc, cur))
         ELSE SplitOnAcc(Tail(s), c, Append(cur, Head(s)), acc)

SplitOn(s, c) == SplitOnAcc(s, c, << >>, << >>)

\* str.replace(c, ''): every occurrence of c removed
Remove(s, c) == SelectSeq(s, LAMBDA x : x # c)

RECURSIVE StripLeft(_)
StripLeft(s) == IF s # << >> /\ IsSpace(Head(s)) THEN StripLeft(Tail(s)) ELSE s

RECURSIVE StripRight(_)
StripRight(s) ==
    IF s # << >> /\ IsSpace(s[Len(s)]) THEN StripRight(SubSeq(s, 1, Len(s) - 1)) ELSE s

\* str.strip()
Strip(s) == StripRight(StripLeft(s))

RECURSIVE JoinSp(_)
\* " ".join(text)
JoinSp(ts) ==
    IF ts = << >> THEN << >>
    ELSE IF Len(ts) = 1 THEN ts[1]
    ELSE ts[1] \o <<" ">> \o JoinSp(Tail(ts))

DigitVal == ("0" :> 0) @@ ("1" :> 1) @@ ("2" :> 2) @@ ("3" :> 3) @@ ("4" :> 4)
            @@ ("5" :> 5) @@ ("6" :> 6) @@ ("7" :> 7) @@ ("8" :> 8) @@ ("9" :> 9)

IsDigits(s) == s # << >> /\ \A i \in 1..Len(s) : s[i] \in DOMAIN DigitVal

RECURSIVE DigitsVal(_)
DigitsVal(s) == IF s = << >> THEN 0 ELSE 10 * DigitsVal(SubSeq(s, 1, Len(s) - 1)) + DigitVal[s[Len(s)]]

\* int(s) succeeds on an optional sign followed by decimal digits
IntOk(s) == IF s # << >> /\ Head(s) \in {"-", "+"} THEN IsDigits(Tail(s)) ELSE IsDigits(s)

IntVal(s) == IF Head(s) = "-" THEN 0 - DigitsVal(Tail(s))
             ELSE IF Head(s) = "+" THEN DigitsVal(Tail(s))
             ELSE DigitsVal(s)

-----------------------------------------------------------------------------
(* Values *)

\* Python's None; differs from every string of characters
NoneVal == <<"None">>

Truthy(x) == x # NoneVal /\ x # << >>

Alice == <<"a", "l", "i", "c", "e">>
Bob == <<"b", "o", "b">>
General == <<"g", "e", "n", "e", "r", "a", "l">>
U1 == <<"U", "1">>
U2 == <<"U", "2">>
C1 == <<"C", "1">>
G2 == <<"G", "2">>
D1 == <<"D", "1">>

UserIds == {U1, U2}
ArchChannels == {C1, G2}
Timestamps == {1, 2, 3}

\* Answers of the users.list API call: alice is a member from the start,
\* bob (U2) is not, and may join
Member(n, i) == [name |-> n, id |-> i, avatar |-> "image_72"]
Members0 == {Member(Alice, U1)}
Directories == { Members0, {Member(Alice, U1), Member(Bob, U2)} }

\* Answer of the channels.list API call: G2 is a private group, never listed
ChannelList == { [name |-> General, id |-> C1] }

-----------------------------------------------------------------------------
(* Tables *)

SameKey(r, q) == r.channel = q.channel /\ r.timestamp = q.timestamp

\* A messages table without its UNIQUE constraint
InsertMessageNoConflict(tbl, row) == Append(tbl, row)

\* INSERT INTO messages under UNIQUE(channel, timestamp) ON CONFLICT REPLACE:
\* the colliding row is deleted and the new row gets a fresh, largest rowid
InsertMessage(tbl, row) == Append(SelectSeq(tbl, LAMBDA r : ~SameKey(r, row)), row)

\* INSERT INTO users/channels under UNIQUE(id) ON CONFLICT REPLACE
InsertAll(tbl, rows) == {r \in tbl : \A q \in rows : q.id # r.id} \cup rows

DictOf(S, k, v) ==
    [x \in {k[m] : m \in S} |-> v[CHOOSE m \in S : k[m] = x]]

NameOf == [m \in UNION Directories \cup ChannelList |-> m.name]
IdOf == [m \in UNION Directories \cup ChannelList |-> m.id]

-----------------------------------------------------------------------------
(* Directory: d = [ENV, users, channels, refreshes] threaded through a handler *)

update_users(d) ==
    [d EXCEPT !.ENV.user_id = DictOf(members, NameOf, IdOf),
              !.ENV.id_user = DictOf(members, IdOf, NameOf),
              !.users = InsertAll(@, members),
              !.refreshes.users = @ + 1]

update_channels(d) ==
    [d EXCEPT !.ENV.channel_id = DictOf(ChannelList, NameOf, IdOf),
              !.ENV.id_channel = DictOf(ChannelList, IdOf, NameOf),
              !.channels = InsertAll(@, ChannelList),
              !.refreshes.channels = @ + 1]

Get(dict, key) == IF key \in DOMAIN dict THEN dict[key] ELSE NoneVal

get_user_name(d, uid) ==
    LET d2 == IF uid \notin DOMAIN d.ENV.id_user THEN update_users(d) ELSE d
    IN  [d |-> d2, val |-> Get(d2.ENV.id_user, uid)]

\* A lookup that trusts the cache and never refreshes it
get_user_id_stale(d, name) == [d |-> d, val |-> Get(d.ENV.user_id, name)]

get_user_id(d, name) ==
    LET d2 == IF name \notin DOMAIN d.ENV.user_id THEN update_users(d) ELSE d
    IN  [d |-> d2, val |-> Get(d2.ENV.user_id, name)]

get_channel_name(d, uid) ==
    LET d2 == IF uid \notin DOMAIN d.ENV.id_channel THEN update_channels(d) ELSE d
    IN  [d |-> d2, val |-> Get(d2.ENV.id_channel, uid)]

get_channel_id(d, name) ==
    LET d2 == IF name \notin DOMAIN d.ENV.channel_id THEN update_channels(d) ELSE d
    IN  [d |-> d2, val |-> Get(d2.ENV.channel_id, name)]

\* datetime.fromtimestamp(int(ts.split('.')[0])): the sub-second part is cut
convert_timestamp(ts) == ts \div SubSec

-----------------------------------------------------------------------------
(* Reply texts *)

\* A rendered text is a sequence of pieces: a message line or white space
Line(row, uname, cname) ==
    [t |-> "line", msg |-> row.message, user |-> uname, channel |-> cname,
     dt |-> convert_timestamp(row.timestamp)]
Ws(c) == [t |-> c, msg |-> << >>, user |-> << >>, channel |-> << >>, dt |-> 0]
IsWsPiece(p) == p.t \in {" ", "\n"}

RECURSIVE StripPieces(_)
\* str.strip() on a rendered text
StripPieces(b) ==
    IF b # << >> /\ IsWsPiece(Head(b)) THEN StripPieces(Tail(b))
    ELSE IF b # << >> /\ IsWsPiece(b[Len(b)]) THEN StripPieces(SubSeq(b, 1, Len(b) - 1))
    ELSE b

Text(body) == [kind |-> "text", fmt |-> "", arg |-> << >>, body |-> body]
Doc == [kind |-> "handle_query.__doc__", fmt |-> "", arg |-> << >>, body |-> << >>]
NoResults == [kind |-> "No results found + handle_query.__doc__", fmt |-> "",
              arg |-> << >>, body |-> << >>]
ValueError(f, a) == [kind |-> "ValueError", fmt |-> f, arg |-> a, body |-> << >>]

Separator == Ws("\n=-=-=-=-=-=-=-=-=-=-=-=-=-=-=-=-\n")

\* chat.postMessage; an empty message is replaced by the no-results text
send_slack_message(out, message, channel) ==
    Append(out, [text |-> IF message = Text(<< >>) THEN NoResults ELSE message,
                 channel |-> channel])

RECURSIVE FormatRowsResolved(_, _, _)
\* A formatting that gives up at the first author it cannot resolve
FormatRowsResolved(d, result, acc) ==
    IF result = << >> THEN [d |-> d, val |-> acc]
    ELSE LET row == Head(result)
             u == get_user_name(d, row.user)
             c == get_channel_name(u.d, row.channel)
         IN  IF u.val = NoneVal THEN [d |-> u.d, val |-> acc]
             ELSE FormatRowsResolved(c.d, Tail(result),
                                     acc \o <<Line(row, u.val, c.val), Ws(" "), Ws("\n")>>)

RECURSIVE FormatRows(_, _, _)
\* the loop of lines 204-205
FormatRows(d, result, acc) ==
    IF result = << >> THEN [d |-> d, val |-> acc]
    ELSE LET row == Head(result)
             u == get_user_name(d, row.user)
             c == get_channel_name(u.d, row.channel)
         IN  FormatRows(c.d, Tail(result),
                        acc \o <<Line(row, u.val, c.val), Ws(" "), Ws("\n")>>)

format_results(d, result) ==
    LET f == FormatRows(d, result, << >>)
    IN  [d |-> f.d, val |-> StripPieces(f.val)]

-----------------------------------------------------------------------------
(* The SQL engine, as far as the statements of handle_query use it *)

RECURSIVE Like(_, _)
\* pat matches s under SQLite's LIKE: % is any run, _ any one character,
\* ASCII letters compare without case; no ESCAPE clause is given
Like(pat, s) ==
    IF pat = << >> THEN s = << >>
    ELSE IF Head(pat) = "%"
         THEN Like(Tail(pat), s) \/ (s # << >> /\ Like(pat, Tail(s)))
    ELSE IF Head(pat) = "_"
         THEN s # << >> /\ Like(Tail(pat), Tail(s))
    ELSE s # << >> /\ Lower(Head(pat)) = Lower(Head(s)) /\ Like(Tail(pat), Tail(s))

Quotes(s) == Len(SelectSeq(s, LAMBDA c : c = "\""))

\* The phrase is pasted between "% and %": an odd number of double quotes in
\* it leaves a string literal of the statement open and sqlite3 raises
\* OperationalError.  (Phrases with two or more quotes are not among the
\* inputs of this model.)
SqlSyntaxError(phrase) == Quotes(phrase) % 2 = 1

Asc == <<"a", "s", "c">>
Desc == <<"d", "e", "s", "c">>

\* An ORDER BY that ignores the direction asked for
BeforeDescOnly(r, q, sort) == r.timestamp > q.timestamp

\* r sorts strictly before q under ORDER BY timestamp <sort>
Before(r, q, sort) ==
    IF sort = Asc THEN r.timestamp < q.timestamp ELSE r.timestamp > q.timestamp

RECURSIVE InsertSorted(_, _, _)
\* r goes behind every row that does not sort after it
InsertSorted(sorted, r, sort) ==
    IF sorted = << >> THEN <<r>>
    ELSE IF Before(r, Head(sorted), sort) THEN <<r>> \o sorted
    ELSE <<Head(sorted)>> \o InsertSorted(Tail(sorted), r, sort)

RECURSIVE OrderBy(_, _)
\* ORDER BY timestamp asc|desc over a table scan: the sorter keeps rows of
\* equal timestamp in scan (rowid) order
OrderBy(rows, sort) ==
    IF rows = << >> THEN << >>
    ELSE InsertSorted(OrderBy(SubSeq(rows, 1, Len(rows) - 1), sort),
                      rows[Len(rows)], sort)

\* cursor.fetchmany(size): rows are appended until the count equals size,
\* which never happens for size <= 0
fetchmany(rows, size) ==
    IF size >= 1 /\ size < Len(rows) THEN SubSeq(rows, 1, size) ELSE rows

Reverse(s) == [i \in 1..Len(s) |-> s[Len(s) + 1 - i]]

-----------------------------------------------------------------------------
(* handle_query *)

From == <<"f", "r", "o", "m">>
In == <<"i", "n">>
Sort == <<"s", "o", "r", "t">>
Limit == <<"l", "i", "m", "i", "t">>
Context == <<"c", "o", "n", "t", "e", "x", "t">>
Help == <<"h", "e", "l", "p">>

NoError == ValueError("", << >>)

\* A from: that tolerates an unknown user
from_qualifier_lenient(q, p, r) == [q EXCEPT !.d = r.d, !.user = r.val]

\* lines 139-141; r is the answer of get_user_id
from_qualifier(q, p, r) ==
    IF r.val = NoneVal
    THEN [q EXCEPT !.d = r.d, !.err = ValueError("User %s not found", p[2])]
    ELSE [q EXCEPT !.d = r.d, !.user = r.val]

\* lines 143-145; r is the answer of get_channel_id
in_qualifier(q, p, r) ==
    IF r.val = NoneVal
    THEN [q EXCEPT !.d = r.d, !.err = ValueError("Channel %s not found", p[2])]
    ELSE [q EXCEPT !.d = r.d, !.channel = r.val]

\* lines 147-150
sort_qualifier(q, p) ==
    IF p[2] \in {Asc, Desc}
    THEN [q EXCEPT !.sort = p[2]]
    ELSE [q EXCEPT !.err = ValueError("Invalid sort order %s", p[2])]

\* lines 152-155
limit_qualifier(q, p) ==
    IF IntOk(p[2])
    THEN [q EXCEPT !.limit = IntVal(p[2])]
    ELSE [q EXCEPT !.err = ValueError("%s not a valid number", p[2])]

\* A context: that keeps a negative radius
context_qualifier_unclamped(q, p) ==
    IF IntOk(p[2])
    THEN [q EXCEPT !.context = IntVal(p[2])]
    ELSE [q EXCEPT !.err = ValueError("%s not a valid number", p[2])]

\* lines 157-162
context_qualifier(q, p) ==
    IF IntOk(p[2])
    THEN [q EXCEPT !.context = IF IntVal(p[2]) < 0 THEN 0 ELSE IntVal(p[2])]
    ELSE [q EXCEPT !.err = ValueError("%s not a valid number", p[2])]

\* One qualifier key:value (lines 137-162); q.err is the ValueError raised
Qualifier(q, p) ==
    IF p[1] = From THEN from_qualifier(q, p, get_user_id(q.d, Strip(Remove(p[2], "@"))))
    ELSE IF p[1] = In THEN in_qualifier(q, p, get_channel_id(q.d, Strip(Remove(p[2], "#"))))
    ELSE IF p[1] = Sort THEN sort_qualifier(q, p)
    ELSE IF p[1] = Limit THEN limit_qualifier(q, p)
    ELSE IF p[1] = Context THEN context_qualifier(q, p)
    ELSE q

\* A token loop without the emoji test of lines 129-131
ParseTokenNoEmoji(q, tok) ==
    LET p == SplitOn(tok, ":")
    IN  IF Len(p) = 1 THEN [q EXCEPT !.text = Append(@, p[1])]
        ELSE IF Len(p) = 2 THEN Qualifier(q, p)
        ELSE q

\* One token of the loop of lines 126-162
ParseToken(q, tok) ==
    IF Len(tok) > 2 /\ tok[1] = ":" /\ tok[Len(tok)] = ":"
    THEN [q EXCEPT !.text = Append(@, tok)]
    ELSE LET p == SplitOn(tok, ":")
         IN  IF Len(p) = 1 THEN [q EXCEPT !.text = Append(@, p[1])]
             ELSE IF Len(p) = 2 THEN Qualifier(q, p)
             ELSE q

RECURSIVE ParseTokens(_, _)
\* the loop stops at the first ValueError
ParseTokens(q, params) ==
    IF params = << >> \/ q.err # NoError THEN q
    ELSE ParseTokens(ParseToken(q, Head(params)), Tail(params))

DefaultLimit == 10

Parse(d, text) ==
    ParseTokens([text |-> << >>, user |-> NoneVal, channel |-> NoneVal, sort |-> Desc,
                 limit |-> DefaultLimit, context |-> 0, d |-> d, err |-> NoError],
                Split(LowerStr(text)))

\* The statement of lines 167-173
MainSelect(tbl, q, phrase) ==
    OrderBy(SelectSeq(tbl, LAMBDA r :
                    /\ Like(<<"%">> \o phrase \o <<"%">>, r.message)
                    /\ (Truthy(q.user) => r.user = q.user)
                    /\ (Truthy(q.channel) => r.channel = q.channel)),
            q.sort)

\* A following-messages statement without its channel condition
SelectAfterAnyChannel(tbl, hit, context) ==
    fetchmany(OrderBy(SelectSeq(tbl, LAMBDA r : r.timestamp > hit.timestamp), Asc), context)

\* The statements of lines 184 and 190 with their fetchmany
SelectBefore(tbl, hit, context) ==
    Reverse(fetchmany(OrderBy(SelectSeq(tbl, LAMBDA r :
                r.channel = hit.channel /\ r.timestamp <= hit.timestamp), Desc),
            context + 1))

SelectAfter(tbl, hit, context) ==
    fetchmany(OrderBy(SelectSeq(tbl, LAMBDA r :
                r.channel = hit.channel /\ r.timestamp > hit.timestamp), Asc),
            context)

Stitched(a, hit, before, after, fb, fa) ==
    [d |-> fa.d,
     msg_txt |-> a.msg_txt \o (IF a.msg_txt # << >> THEN <<Separator>> ELSE << >>)
                     \o fb.val \o fa.val,
     blocks |-> Append(a.blocks, [hit |-> hit, before |-> before, after |-> after]),
     selects |-> a.selects + 2]

Stitch(a, hit, before, after, fb) ==
    Stitched(a, hit, before, after, fb, format_results(fb.d, after))

\* one turn of the loop of lines 180-191 for hit
Block(a, hit, before, after) == Stitch(a, hit, before, after, format_results(a.d, before))

\* line 193
Bare(f) == [d |-> f.d, msg_txt |-> f.val, blocks |-> << >>, selects |-> 1]

\* line 194
Reply(x, hits, out1, event) ==
    [d |-> x.d, sent |-> send_slack_message(out1, Text(x.msg_txt), event.channel),
     selects |-> x.selects, res |-> hits, blocks |-> x.blocks, raised |-> "none"]

RECURSIVE ExpandLater(_, _, _, _)
\* A context loop that reads the table after a write has come in between: the
\* row with the largest rowid is gone
ExpandLater(tbl, hits, context, a) ==
    IF hits = << >> THEN a
    ELSE ExpandLater(tbl, Tail(hits), context,
                Block(a, Head(hits),
                      SelectBefore(SubSeq(tbl, 1, Len(tbl) - 1), Head(hits), context),
                      SelectAfter(SubSeq(tbl, 1, Len(tbl) - 1), Head(hits), context)))

RECURSIVE Expand(_, _, _, _)
\* the loop of lines 180-191; a = [d, msg_txt, blocks, selects]
Expand(tbl, hits, context, a) ==
    IF hits = << >> THEN a
    ELSE Expand(tbl, Tail(hits), context,
                Block(a, Head(hits), SelectBefore(tbl, Head(hits), context),
                      SelectAfter(tbl, Head(hits), context)))

\* lines 178-194
Render(tbl, q, hits, out1, event) ==
    IF q.context # 0
    THEN Reply(Expand(tbl, hits, q.context,
                      [d |-> q.d, msg_txt |-> << >>, blocks |-> << >>, selects |-> 1]),
               hits, out1, event)
    ELSE Reply(Bare(format_results(q.d, hits)), hits, out1, event)

\* lines 164-194, after the parse ended without a ValueError
Search(tbl, q, phrase, event) ==
    LET out1 == IF phrase = Help THEN send_slack_message(<< >>, Doc, event.channel) ELSE << >>
    IN  IF SqlSyntaxError(phrase)
        THEN [d |-> q.d, sent |-> out1, selects |-> 1, res |-> << >>, blocks |-> << >>,
              raised |-> "OperationalError"]
        ELSE Render(tbl, q, fetchmany(MainSelect(tbl, q, phrase), q.limit), out1, event)

\* A handle_query whose except clause is missing
AnswerUncaught(tbl, q, event) ==
    IF q.err # NoError
    THEN [d |-> q.d, sent |-> << >>, selects |-> 0, res |-> << >>, blocks |-> << >>,
          raised |-> "ValueError"]
    ELSE Search(tbl, q, JoinSp(q.text), event)

\* handle_query(event) on the messages table tbl with directory state d:
\* the directory state, replies, statements and exception it ends with
Answer(tbl, q, event) ==
    IF q.err # NoError
    THEN [d |-> q.d, sent |-> send_slack_message(<< >>, q.err, event.channel), selects |-> 0,
          res |-> << >>, blocks |-> << >>, raised |-> "none"]
    ELSE Search(tbl, q, JoinSp(q.text), event)

\* the locals text, user, channel, sort, limit and context of handle_query
\* as the token loop left them, and the ValueError it raised
Locals(q) == [text |-> q.text, user |-> q.user, channel |-> q.channel, sort |-> q.sort,
              limit |-> q.limit, context |-> q.context, err |-> q.err]

\* lines 118-123
NotParsed == [text |-> << >>, user |-> NoneVal, channel |-> NoneVal, sort |-> Desc,
              limit |-> DefaultLimit, context |-> 0, err |-> NoError]

Outcome(tbl, q, event) == Answer(tbl, q, event) @@ [parsed |-> Locals(q)]

handle_query(tbl, d, event) == Outcome(tbl, Parse(d, event.text), event)

-----------------------------------------------------------------------------
(* Events delivered by rtm_read() *)

\* keys is the set of keys the event dictionary has; a field whose key is
\* absent holds a filler.  "message" and "previous_message" stand for the
\* nested dictionaries of an edit, message_text/prev_user/prev_ts for their
\* entries.
Event(keys, subtype, text, user, channel, ts, mtext, puser, pts) ==
    [type |-> "message", keys |-> keys \cup {"type", "channel", "ts"}, subtype |-> subtype,
     text |-> text, user |-> user, channel |-> channel, ts |-> ts, username |-> "",
     message_text |-> mtext, prev_user |-> puser, prev_ts |-> pts]

Plain(text, user, channel, ts) ==
    Event({"text", "user"}, "", text, user, channel, ts, << >>, << >>, 0)

Edit(text, puser, channel, pts) ==
    Event({"subtype", "message", "previous_message"}, "message_changed",
          << >>, << >>, channel, 3, text, puser, pts)

TextAb == <<"A", " ", "b">>
TextB == <<"b">>
\* what the archived channels carry: alice writes "A b", U2 writes "b"
Posts == { <<TextAb, U1>>, <<TextB, U2>> }

W(a, b) == a \o <<" ">> \o b
K(key, val) == key \o <<":">> \o val

QueryTexts ==
    { << >>, <<"a">>, <<"B">>, W(<<"a">>, <<"b">>), W(<<"b">>, <<"a">>),
      <<"_">>, <<"a", "_", "b">>, <<"\"">>,
      Help, W(Help, K(Sort, Asc)), W(Help, K(From, <<"g", "h", "o", "s", "t">>)),
      K(From, Alice), K(From, <<"@">> \o Bob), K(From, <<"g", "h", "o", "s", "t">>),
      K(In, General), K(In, <<"#">> \o General), K(In, <<"r", "a", "n", "d", "o", "m">>),
      K(Sort, Asc), K(Sort, Desc), K(Sort, <<"u", "p">>), W(K(Sort, Asc), K(Sort, Desc)),
      K(Limit, <<"0">>), K(Limit, <<"1">>), K(Limit, <<"2">>), K(Limit, <<"-", "1">>),
      K(Limit, <<"x">>), W(K(Limit, <<"1">>), K(Sort, Asc)),
      K(Context, <<"1">>), K(Context, <<"0">>), K(Context, <<"-", "3">>), K(Context, <<"x">>),
      W(K(Context, <<"1">>), K(Limit, <<"1">>)),
      W(K(Context, <<"1">>), W(K(In, General), K(Sort, Asc))),
      W(<<"b">>, W(K(From, Alice), W(K(In, General), W(K(Sort, Asc), K(Limit, <<"1">>))))),
      <<":", "b", ":">>, <<":", "f", "r", "o", "m", ":">>, K(From, K(Alice, <<"b">>)),
      <<":", ":">>, K(<<"f", "o", "o">>, <<"b">>),
      W(<<"b">>, W(<<":", "b", ":">>, K(Sort, Asc))), W(<<"b">>, K(Context, <<"-", "3">>)),
      K(Limit, K(<<"1">>, <<"2">>)) }

MessageEvents ==
    { Plain(p[1], p[2], c, ts) : p \in Posts, c \in ArchChannels, ts \in Timestamps }
    \cup { Edit(p[1], p[2], c, ts) : p \in Posts, c \in ArchChannels, ts \in Timestamps }
    \cup { Plain(t, U1, D1, 1) : t \in QueryTexts }
    \cup { \* an edit of a direct message, an edit without previous_message,
           \* a channel_join, an event without user, one without text, a bot's
           Edit(<<"a">>, U1, D1, 1),
           Event({"subtype", "message"}, "message_changed", << >>, << >>, C1, 1, TextB, << >>, 0),
           Event({"subtype", "text", "user"}, "channel_join", TextB, U2, C1, 1, << >>, << >>, 0),
           Event({"text"}, "", TextB, << >>, C1, 2, << >>, << >>, 0),
           Event({"user"}, "", << >>, U1, C1, 2, << >>, << >>, 0),
           [Event({"text", "username"}, "", TextB, << >>, C1, 2, << >>, << >>, 0)
               EXCEPT !.username = "bot"] }

OtherEvents == { [Plain(<< >>, U1, C1, 1) EXCEPT !.type = "user_typing"] }

Events == MessageEvents \cup OtherEvents

-----------------------------------------------------------------------------
(* handle_message *)

\* lines 210-217: the assignments made before a KeyError, if any, stay
Unwrap(event) ==
    IF "subtype" \in event.keys /\ event.subtype = "message_changed" /\ "message" \in event.keys
    THEN LET e1 == [event EXCEPT !.text = event.message_text, !.keys = @ \cup {"text"}]
         IN  IF "previous_message" \in event.keys
             THEN [e1 EXCEPT !.user = event.prev_user, !.ts = event.prev_ts,
                             !.keys = @ \cup {"user"}]
             ELSE e1
    ELSE event

NoRefresh == [users |-> 0, channels |-> 0]

Dir == [ENV |-> ENV, users |-> users, channels |-> channels, refreshes |-> NoRefresh]

\* the event is dropped (lines 219, 221, 232)
Skip == [messages |-> messages, replaced |-> 0, d |-> Dir, sent |-> << >>, selects |-> 0,
         res |-> << >>, blocks |-> << >>, raised |-> "none", parsed |-> NotParsed]

\* lines 234-237 left the table tbl; replaced counts the rows the conflict
\* clause deleted
Saved(tbl) == [Skip EXCEPT !.messages = tbl, !.replaced = Len(messages) + 1 - Len(tbl)]

\* A handle_message without the test of line 229: direct messages are archived
handle_message_no_dm(event) ==
    LET e == Unwrap(event)
    IN  IF "text" \notin e.keys THEN Skip
        ELSE IF "username" \in e.keys /\ e.username = "bot" THEN Skip
        ELSE IF "user" \notin e.keys THEN Skip
        ELSE Saved(InsertMessage(messages,
                     [message |-> e.text, user |-> e.user, channel |-> e.channel,
                      timestamp |-> e.ts]))

\* handle_message(event): the tables, cache and effects it ends with
handle_message(event) ==
    LET e == Unwrap(event)
    IN  IF "text" \notin e.keys THEN Skip
        ELSE IF "username" \in e.keys /\ e.username = "bot" THEN Skip
        ELSE IF e.channel[1] = "D"
             THEN LET r == handle_query(messages, Dir, e)
                  IN  [messages |-> messages, replaced |-> 0, d |-> r.d, sent |-> r.sent, selects |-> r.selects,
                       res |-> r.res, blocks |-> r.blocks, raised |-> r.raised,
                       parsed |-> r.parsed]
        ELSE IF "user" \notin e.keys THEN Skip
        ELSE Saved(InsertMessage(messages,
                     [message |-> e.text, user |-> e.user, channel |-> e.channel,
                      timestamp |-> e.ts]))

-----------------------------------------------------------------------------
(* The main loop *)

NoEvent == [Plain(<< >>, U1, C1, 1) EXCEPT !.type = "none"]

\* no event is being handled
Waiting ==
    /\ ev = NoEvent
    /\ replaced = 0
    /\ sent = << >>
    /\ selects = 0
    /\ res = << >>
    /\ blocks = << >>
    /\ refreshes = NoRefresh
    /\ raised = "none"
    /\ parsed = NotParsed

Init ==
    /\ members = Members0
    /\ messages = << >>
    \* update_users() and update_channels() of lines 242-244
    /\ users = members
    /\ channels = ChannelList
    /\ ENV = [user_id |-> DictOf(members, NameOf, IdOf), id_user |-> DictOf(members, IdOf, NameOf),
              channel_id |-> DictOf(ChannelList, NameOf, IdOf),
              id_channel |-> DictOf(ChannelList, IdOf, NameOf)]
    /\ pc = "rtm_read"
    /\ pending = << >>
    /\ Waiting

\* One turn of the loop of lines 249-251 on an event rtm_read() delivered; an
\* exception that leaves handle_message is caught and printed (254-255)
Dispatch(event) ==
    /\ pc = "rtm_read"
    /\ pc' = "handled"
    /\ ev' = event
    /\ IF event.type = "message"
       THEN \E r \in {handle_message(event)} :
                /\ Len(r.messages) <= MaxRows
                /\ messages' = r.messages
                /\ replaced' = r.replaced
                /\ ENV' = r.d.ENV
                /\ users' = r.d.users
                /\ channels' = r.d.channels
                /\ refreshes' = r.d.refreshes
                /\ sent' = r.sent
                /\ selects' = r.selects
                /\ res' = r.res
                /\ blocks' = r.blocks
                /\ raised' = r.raised
                /\ parsed' = r.parsed
       ELSE /\ replaced' = 0 /\ sent' = << >> /\ selects' = 0 /\ res' = << >> /\ blocks' = << >>
            /\ refreshes' = NoRefresh /\ raised' = "none" /\ parsed' = NotParsed
            /\ UNCHANGED <<messages, users, channels, ENV>>
    /\ UNCHANGED members

\* rtm_read() returned the one event
Handle == \E event \in Events : Dispatch(event) /\ UNCHANGED pending

\* The loop goes on to the next event (line 249, or 256 and 249)
NextEvent ==
    /\ pc = "handled"
    /\ pc' = "rtm_read"
    /\ ev' = NoEvent
    /\ replaced' = 0
    /\ sent' = << >>
    /\ selects' = 0
    /\ res' = << >>
    /\ blocks' = << >>
    /\ refreshes' = NoRefresh
    /\ raised' = "none"
    /\ parsed' = NotParsed
    /\ UNCHANGED <<messages, users, channels, ENV, members, pending>>

\* The workspace's member list changes: a user joins
UserJoins ==
    /\ pc = "rtm_read"
    /\ \E m \in Directories : members \subseteq m /\ m # members /\ members' = m
    /\ UNCHANGED <<messages, users, channels, ENV, pc, ev, replaced, sent, selects, res, blocks,
                   refreshes, raised, parsed, pending>>

Next == Handle \/ NextEvent

\* The bot while the member list stays as it was at startup
Spec == Init /\ [][Next]_vars

\* The events of a workspace that users join: the posts, the requests that
\* name users and channels or render them, and an event of another type
DirectoryEvents ==
    { Plain(p[1], p[2], c, ts) : p \in Posts, c \in ArchChannels, ts \in Timestamps }
    \cup { Plain(t, U1, D1, 1) :
              t \in { << >>, K(From, Alice), K(From, <<"@">> \o Bob),
                      K(From, <<"g", "h", "o", "s", "t">>), K(In, <<"#">> \o General),
                      K(In, <<"r", "a", "n", "d", "o", "m">>), K(Context, <<"1">>) } }
    \cup OtherEvents

HandleJoins == \E event \in DirectoryEvents : Dispatch(event) /\ UNCHANGED pending

NextJoins == HandleJoins \/ NextEvent \/ UserJoins

\* The bot in a workspace that users join
SpecJoins == Init /\ [][NextJoins]_vars

\* Events that come several to one rtm_read(): two requests, of which the
\* first makes the statement of line 176 fail, and posts in channel C1
BatchEvents ==
    { Plain(<<"\"">>, U1, D1, 1), Plain(TextB, U1, D1, 1) }
    \cup { Plain(p[1], p[2], C1, ts) : p \in Posts, ts \in {1, 2} }
    \cup OtherEvents

Batches == UNION { [1..n -> BatchEvents] : n \in 1..MaxBatch }

\* line 249: rtm_read() returns a list of events
RtmRead ==
    /\ pc = "rtm_read"
    /\ pending = << >>
    /\ \E batch \in Batches : pending' = batch
    /\ UNCHANGED <<messages, users, channels, ENV, members, pc, ev, replaced, sent, selects,
                   res, blocks, refreshes, raised, parsed>>

\* lines 249-255: the for loop takes the next event of the list; an exception
\* leaves the loop, and with it the rest of the list
HandleNext ==
    /\ pending # << >>
    /\ Dispatch(Head(pending))
    /\ pending' = IF raised' # "none" THEN << >> ELSE Tail(pending)

\* lines 249, 252-253: rtm_read() raises WebSocketConnectionClosedException
\* and the bot connects again
WebSocketClosed ==
    /\ pc = "rtm_read"
    /\ pending = << >>
    /\ pc' = "handled"
    /\ raised' = "WebSocketConnectionClosedException"
    /\ UNCHANGED <<messages, users, channels, ENV, members, ev, replaced, sent, selects,
                   res, blocks, refreshes, parsed, pending>>

NextBatch == RtmRead \/ HandleNext \/ WebSocketClosed \/ NextEvent

\* The bot reading lists of events
SpecBatch == Init /\ [][NextBatch]_vars

\* the for loop has an event of the list left to take
InHand == pc = "rtm_read" /\ pending # << >>

\* The loop of line 247 never stops by itself: after an event, or an
\* exception, it goes round (NextEvent), and an event of the list in hand is
\* taken (HandleNext, enabled exactly when InHand holds, so that its weak
\* fairness is that InHand does not hold for ever)
FairSpecBatch == SpecBatch /\ WF_vars(NextEvent) /\ []<>(~InHand)

-----------------------------------------------------------------------------
(* Vocabulary of the properties: the request an event makes, read off its   *)
(* text without the parser                                                  *)

Range(f) == { f[i] : i \in DOMAIN f }

Handled == pc = "handled"

\* the event handled is a direct message, that is a search request
IsQuery == Handled /\ ev.type = "message" /\ ev.subtype = "" /\ ev.channel = D1

Tokens == Split(LowerStr(ev.text))

Colons(tok) == Len(SelectSeq(tok, LAMBDA c : c = ":"))
IsEmoji(tok) == Len(tok) > 2 /\ tok[1] = ":" /\ tok[Len(tok)] = ":"
IsTerm(tok) == IsEmoji(tok) \/ Colons(tok) = 0

\* the free-text phrase: the terms joined by single spaces
Phrase == JoinSp(SelectSeq(Tokens, IsTerm))

IsQualifier(tok, key) ==
    /\ ~IsEmoji(tok)
    /\ Colons(tok) = 1
    /\ Len(tok) > Len(key)
    /\ SubSeq(tok, 1, Len(key) + 1) = key \o <<":">>

ValueOf(tok, key) == SubSeq(tok, Len(key) + 2, Len(tok))

\* the values of the key: qualifiers, in the order given
Given(key) ==
    LET qs == SelectSeq(Tokens, LAMBDA t : IsQualifier(t, key))
    IN  [i \in 1..Len(qs) |-> ValueOf(qs[i], key)]

Last(s) == s[Len(s)]

UserNames == { m.name : m \in members }
ChannelNames == { c.name : c \in ChannelList }

\* the token is a qualifier that fails validation, and the text of its error
ErrorOf(tok) ==
    IF IsQualifier(tok, From) /\ Remove(ValueOf(tok, From), "@") \notin UserNames
        THEN ValueError("User %s not found", ValueOf(tok, From))
    ELSE IF IsQualifier(tok, In) /\ Remove(ValueOf(tok, In), "#") \notin ChannelNames
        THEN ValueError("Channel %s not found", ValueOf(tok, In))
    ELSE IF IsQualifier(tok, Sort) /\ ValueOf(tok, Sort) \notin {Asc, Desc}
        THEN ValueError("Invalid sort order %s", ValueOf(tok, Sort))
    ELSE IF IsQualifier(tok, Limit) /\ ~IntOk(ValueOf(tok, Limit))
        THEN ValueError("%s not a valid number", ValueOf(tok, Limit))
    ELSE IF IsQualifier(tok, Context) /\ ~IntOk(ValueOf(tok, Context))
        THEN ValueError("%s not a valid number", ValueOf(tok, Context))
    ELSE NoError

BadTokens == SelectSeq(Tokens, LAMBDA t : ErrorOf(t) # NoError)
Invalid == BadTokens # << >>

\* s contains p, letters compared without case
Contains(s, p) ==
    \E i \in 1..(Len(s) - Len(p) + 1) : \A j \in 1..Len(p) : Lower(s[i + j - 1]) = Lower(p[j])

\* the stored message passes every filter the request names
Wanted(r) ==
    /\ Contains(r.message, Phrase)
    /\ Given(From) # << >> =>
           \E m \in members : m.name = Remove(Last(Given(From)), "@") /\ r.user = m.id
    /\ Given(In) # << >> =>
           \E c \in ChannelList : c.name = Remove(Last(Given(In)), "#") /\ r.channel = c.id

WantedRows == SelectSeq(messages, Wanted)

SortWanted == IF Given(Sort) = << >> THEN Desc ELSE Last(Given(Sort))
LimitWanted == IF Given(Limit) = << >> THEN 10 ELSE IntVal(Last(Given(Limit)))
ContextWanted == IF Given(Context) = << >> THEN 0 ELSE IntVal(Last(Given(Context)))

Min(a, b) == IF a < b THEN a ELSE b

Position(r) == CHOOSE k \in 1..Len(messages) : messages[k] = r

ReplyOf(text) == [text |-> text, channel |-> ev.channel]

-----------------------------------------------------------------------------
(* Properties *)

UniqueKeys ==
    \A i, j \in 1..Len(messages) : SameKey(messages[i], messages[j]) => i = j

\* a complete edit of a message of an archived channel has been handled
IsEdit ==
    /\ Handled
    /\ ev.type = "message"
    /\ ev.subtype = "message_changed"
    /\ {"subtype", "message", "previous_message"} \subseteq ev.keys
    /\ ev.channel \in ArchChannels

\* C1: the messages table never holds two rows of one (channel, timestamp);
\* after an edit event is handled the one row of its (channel, timestamp)
\* carries the edit's text and author; and the hits of a search are current
\* rows of the table, no two of one (channel, timestamp).
C1_OneVersion ==
    /\ UniqueKeys
    /\ IsEdit => SelectSeq(messages, LAMBDA r :
                     r.channel = ev.channel /\ r.timestamp = ev.prev_ts)
                 = << [message |-> ev.message_text, user |-> ev.prev_user,
                       channel |-> ev.channel, timestamp |-> ev.prev_ts] >>
    /\ IsQuery => /\ Range(res) \subseteq Range(messages)
                  /\ \A i, j \in 1..Len(res) : SameKey(res[i], res[j]) => i = j

\* an edit has replaced a stored row, other rows staying
C1_Witness == IsEdit /\ replaced = 1 /\ Len(messages) > 1

\* C2: a valid query whose free text is exactly "help" is answered by the
\* usage text alone, and no statement is run on the messages table.
C2_HelpOnly ==
    (IsQuery /\ ~Invalid /\ Phrase = Help) => (sent = <<ReplyOf(Doc)>> /\ selects = 0)

\* C3: every hit of a valid query contains the phrase (without case) and
\* passes the from: and in: filters, and every stored message that does is
\* a hit unless the limit cut the hits off.
C3_HitsAreTheWanted ==
    (IsQuery /\ ~Invalid) =>
        /\ \A i \in 1..Len(res) : Wanted(res[i])
        /\ \/ Range(WantedRows) \subseteq Range(res)
           \/ Len(res) = LimitWanted

HasPatternChar(s) == \E i \in 1..Len(s) : s[i] \in {"%", "_", "\""}

\* C5: a valid query with a limit of n >= 0 (10 if none is given) returns
\* exactly min(n, number of matching messages) hits; limit:0 returns none.
C5_LimitCount ==
    (IsQuery /\ ~Invalid /\ ~HasPatternChar(Phrase) /\ LimitWanted >= 0) =>
        Len(res) = Min(LimitWanted, Len(WantedRows))

\* C6: a query whose limit value is not a non-negative integer, and that is
\* valid otherwise, is answered by the invalid-number error and runs no
\* statement on the messages table.
C6_BadLimitRejected ==
    (/\ IsQuery
     /\ Given(Limit) # << >>
     /\ \A i \in 1..Len(BadTokens) : IsQualifier(BadTokens[i], Limit)
     /\ \E i \in 1..Len(Given(Limit)) :
            ~(IntOk(Given(Limit)[i]) /\ IntVal(Given(Limit)[i]) >= 0))
    => /\ Len(sent) = 1
       /\ sent[1].text.fmt = "%s not a valid number"
       /\ selects = 0

\* the first token that fails validation names an unknown user or channel
UnknownName ==
    /\ Invalid
    /\ IsQualifier(BadTokens[1], From) \/ IsQualifier(BadTokens[1], In)

\* C7: when the first failing qualifier is a from: or in: whose name the
\* directory does not hold, a refresh of the directory has been tried, the
\* reply is the user/channel-not-found error, and no statement was run on
\* the messages table.
C7_UnknownNameNoSearch ==
    (IsQuery /\ UnknownName) =>
        /\ selects = 0
        /\ res = << >>
        /\ sent = <<ReplyOf(ErrorOf(BadTokens[1]))>>
        /\ sent[1].text.fmt \in {"User %s not found", "Channel %s not found"}
        /\ IsQualifier(BadTokens[1], From) => refreshes.users >= 1
        /\ IsQualifier(BadTokens[1], In) => refreshes.channels >= 1

\* from: named an unknown user while messages are stored
C7_Witness ==
    /\ IsQuery /\ UnknownName /\ IsQualifier(BadTokens[1], From)
    /\ refreshes.users = 1
    /\ messages # << >>

ChannelRows(c) == { r \in Range(messages) : r.channel = c }

\* the up-to-n messages of the hit's channel nearest below / above the hit
NearestBelow(hit, n) ==
    { m \in ChannelRows(hit.channel) :
        /\ m.timestamp < hit.timestamp
        /\ Cardinality({ x \in ChannelRows(hit.channel) :
               m.timestamp < x.timestamp /\ x.timestamp < hit.timestamp }) < n }

NearestAbove(hit, n) ==
    { m \in ChannelRows(hit.channel) :
        /\ m.timestamp > hit.timestamp
        /\ Cardinality({ x \in ChannelRows(hit.channel) :
               hit.timestamp < x.timestamp /\ x.timestamp < m.timestamp }) < n }

Ascending(rows) ==
    \A i, j \in 1..Len(rows) : i < j => rows[i].timestamp < rows[j].timestamp

\* C8: with a context radius r > 0 there is one block per hit, in the order
\* of the hits: the up-to-r nearest earlier messages of the hit's channel,
\* the hit, the up-to-r nearest later ones, in ascending timestamp order.
C8_ContextBlocks ==
    (IsQuery /\ ~Invalid /\ raised = "none" /\ ContextWanted > 0) =>
        /\ Len(blocks) = Len(res)
        /\ \A i \in 1..Len(blocks) :
              /\ blocks[i].hit = res[i]
              /\ blocks[i].before # << >>
              /\ Last(blocks[i].before) = res[i]
              /\ Range(blocks[i].before) = NearestBelow(res[i], ContextWanted) \cup {res[i]}
              /\ Range(blocks[i].after) = NearestAbove(res[i], ContextWanted)
              /\ Ascending(blocks[i].before \o blocks[i].after)

\* a block [M2, M3, M4], and a block that leaves out a message of the hit's
\* channel further away than the radius
C8_Witness ==
    /\ IsQuery /\ ~Invalid /\ ContextWanted = 1
    /\ \E i \in 1..Len(blocks) :
          /\ Len(blocks[i].before) = 2 /\ Len(blocks[i].after) = 1
    /\ \E i \in 1..Len(blocks) :
          Cardinality(ChannelRows(blocks[i].hit.channel))
              > Len(blocks[i].before) + Len(blocks[i].after)

\* C9: the phrase is matched literally: the statement runs whatever
\* characters the phrase holds, and every hit contains the phrase.
C9_LiteralMatch ==
    (IsQuery /\ ~Invalid) =>
        /\ raised = "none"
        /\ \A i \in 1..Len(res) : Contains(res[i].message, Phrase)

\* the reply to a query that fails validation
C10_ErrorReply ==
    (IsQuery /\ Invalid) =>
        /\ sent = <<ReplyOf(ErrorOf(BadTokens[1]))>>
        /\ raised = "none"

\* handling a query that fails validation leaves the messages table alone
C10_TableKept == messages' = messages \/ ~(IsQuery /\ Invalid)'

\* after a query that failed validation the loop takes the next event
C10_LoopGoesOn == (pc' = "rtm_read" /\ ev' = NoEvent) \/ ~(IsQuery /\ Invalid)

\* C10: a query that fails validation (unknown user or channel, invalid sort,
\* non-numeric limit or context) gets the error text as its one reply, to
\* the channel it came from; no exception leaves handle_query, the messages
\* table is unchanged, and the loop goes on to the next event.
C10_ValidationRecovered ==
    /\ []C10_ErrorReply
    /\ [][C10_TableKept /\ C10_LoopGoesOn]_vars

\* an invalid sort order was asked for while messages are stored
C10_Witness ==
    /\ IsQuery /\ Invalid
    /\ IsQualifier(BadTokens[1], Sort)
    /\ messages # << >>

-----------------------------------------------------------------------------
(* Properties of the replies and of the token loop *)

\* C11: every search request gets exactly one reply, addressed to the
\* channel the request came from.
C11_OneReply == IsQuery => (Len(sent) = 1 /\ sent[1].channel = ev.channel)

\* the token is no emoji literal and holds more than one colon
ManyColons(tok) == ~IsEmoji(tok) /\ Colons(tok) > 1

FirstColon(tok) == CHOOSE i \in 1..Len(tok) : tok[i] = ":" /\ \A j \in 1..(i - 1) : tok[j] # ":"
KeyOf(tok) == SubSeq(tok, 1, FirstColon(tok) - 1)
RestOf(tok) == SubSeq(tok, FirstColon(tok) + 1, Len(tok))

\* the error a qualifier key:val fails validation with, if it does
ErrorFor(key, val) ==
    IF key = From /\ Remove(val, "@") \notin UserNames
        THEN ValueError("User %s not found", val)
    ELSE IF key = In /\ Remove(val, "#") \notin ChannelNames
        THEN ValueError("Channel %s not found", val)
    ELSE IF key = Sort /\ val \notin {Asc, Desc}
        THEN ValueError("Invalid sort order %s", val)
    ELSE IF key \in {Limit, Context} /\ ~IntOk(val)
        THEN ValueError("%s not a valid number", val)
    ELSE NoError

\* a token read as key:value with the value everything after the first colon
ReadError(tok) ==
    IF ManyColons(tok) THEN ErrorFor(KeyOf(tok), RestOf(tok)) ELSE ErrorOf(tok)

FirstReadError ==
    LET bad == SelectSeq(Tokens, LAMBDA t : ReadError(t) # NoError)
    IN  IF bad = << >> THEN NoError ELSE bad[1]

\* C12: a token with more than one colon that is no emoji literal is read as
\* the qualifier <part before the first colon>:<everything after it>; so
\* from:alice:b asks for the user "alice:b", and the request ends with the
\* error of the first token that fails validation under this reading.
C12_FirstColonSplits ==
    (IsQuery /\ \E i \in 1..Len(Tokens) : ManyColons(Tokens[i])) =>
        /\ parsed.err = (IF FirstReadError = NoError THEN NoError
                         ELSE ReadError(FirstReadError))
        /\ parsed.err # NoError => sent = <<ReplyOf(parsed.err)>>

\* C13: an emoji literal (longer than two characters, a colon at both ends)
\* is appended to the terms as it stands and is never read as a qualifier:
\* the emoji among the terms are the emoji tokens of the query up to the
\* token that failed validation, and a query of emoji literals alone leaves
\* user, channel, sort, limit and context at their defaults, raises no error
\* and looks nothing up in the directory.
C13_EmojiVerbatim ==
    IsQuery => \A toks \in {Tokens} :
        (\E i \in 1..Len(toks) : IsEmoji(toks[i])) =>
            /\ ~Invalid => SelectSeq(parsed.text, IsEmoji) = SelectSeq(toks, IsEmoji)
            /\ (\A i \in 1..Len(toks) : IsEmoji(toks[i])) =>
                   /\ parsed = [NotParsed EXCEPT !.text = toks]
                   /\ selects = 1
                   /\ res = SelectSeq(res, LAMBDA r : Contains(r.message, JoinSp(toks)))

\* the emoji literal :from: was a term of a search over stored messages
C13_Witness ==
    /\ IsQuery
    /\ Tokens = << <<":">> \o From \o <<":">> >>
    /\ parsed.text = Tokens
    /\ messages # << >>

\* the query with every negative context value replaced by 0
ClampedText ==
    JoinSp([i \in 1..Len(Tokens) |->
        IF /\ IsQualifier(Tokens[i], Context)
           /\ IntOk(ValueOf(Tokens[i], Context))
           /\ IntVal(ValueOf(Tokens[i], Context)) < 0
        THEN K(Context, <<"0">>) ELSE Tokens[i]])

NegativeContext ==
    \E i \in 1..Len(Given(Context)) :
        IntOk(Given(Context)[i]) /\ IntVal(Given(Context)[i]) < 0

\* C14: a request with a negative context value gets the reply the same
\* request with context:0 in its place gets on the same tables; when the
\* negative value is the one in force, no context statement is run and the
\* reply is the bare hits.
C14_NegativeContextIsZero ==
    (IsQuery /\ NegativeContext) =>
        /\ sent = handle_query(messages, Dir, [ev EXCEPT !.text = ClampedText]).sent
        /\ (~Invalid /\ IntVal(Last(Given(Context))) < 0) =>
               /\ parsed.context = 0
               /\ blocks = << >>
               /\ selects = 1
               /\ raised = "none" =>
                      sent = send_slack_message(<< >>, Text(format_results(Dir, res).val),
                                                ev.channel)

\* context:-3 on a hit that has neighbours in its channel
C14_Witness ==
    /\ IsQuery /\ NegativeContext /\ ~Invalid
    /\ \E i \in 1..Len(res) : Cardinality(ChannelRows(res[i].channel)) > 1
    /\ Len(sent) = 1 /\ Len(sent[1].text.body) > 1

-----------------------------------------------------------------------------
(* Properties of the directory *)

MemberIds == { m.id : m \in members }
ListedIds == { c.id : c \in ChannelList }

\* the name the member list / channel list has for an id, None if it has none
UserNameIn(uid) ==
    IF uid \in MemberIds THEN (CHOOSE m \in members : m.id = uid).name ELSE NoneVal
ChannelNameIn(cid) ==
    IF cid \in ListedIds THEN (CHOOSE c \in ChannelList : c.id = cid).name ELSE NoneVal

\* the request is the one qualifier key:<name>
SingleToken(key) == Len(Tokens) = 1 /\ IsQualifier(Tokens[1], key)
LookedUp(key, mark) == Remove(ValueOf(Tokens[1], key), mark)

RECURSIVE Flatten(_)
Flatten(bs) ==
    IF bs = << >> THEN << >> ELSE Head(bs).before \o Head(bs).after \o Flatten(Tail(bs))

\* the rows the reply renders, in the order it renders them
Rendered == IF blocks = << >> THEN res ELSE Flatten(blocks)

LinesOf(reply) == SelectSeq(reply.text.body, LAMBDA p : p.t = "line")

RECURSIVE Misses(_, _, _)
\* the refreshes that looking up ids one after the other takes, beginning
\* with the keys cached in the cache; a refresh leaves the keys listed
Misses(ids, cached, listed) ==
    IF ids = << >> THEN 0
    ELSE IF Head(ids) \in cached THEN Misses(Tail(ids), cached, listed)
    ELSE 1 + Misses(Tail(ids), listed, listed)

\* a request without from: and in: has been rendered
RenderedOnly ==
    IsQuery /\ ~Invalid /\ raised = "none" /\ Given(From) = << >> /\ Given(In) = << >>

\* get_user_id, called with name for the one from: of a request
C15_UserId(name) ==
    /\ refreshes'.users = (IF name \notin DOMAIN ENV.user_id THEN 1 ELSE 0)
    /\ name \notin DOMAIN ENV.user_id =>
           /\ users' = users \cup members
           /\ DOMAIN ENV'.user_id = UserNames
           /\ \A m \in members : ENV'.user_id[m.name] = m.id
    /\ name \in DOMAIN ENV.user_id =>
           /\ users' = users
           /\ ENV'.user_id = ENV.user_id
           /\ ENV'.id_user = ENV.id_user
    /\ parsed'.user = Get(ENV'.user_id, name)
    /\ name \notin DOMAIN ENV'.user_id => parsed'.err # NoError

\* get_channel_id, called with name for the one in: of a request
C15_ChannelId(name) ==
    /\ refreshes'.channels = (IF name \notin DOMAIN ENV.channel_id THEN 1 ELSE 0)
    /\ name \in DOMAIN ENV.channel_id =>
           /\ channels' = channels
           /\ ENV'.channel_id = ENV.channel_id
           /\ ENV'.id_channel = ENV.id_channel
    /\ parsed'.channel = Get(ENV'.channel_id, name)
    /\ name \notin DOMAIN ENV'.channel_id => parsed'.err # NoError

\* get_user_name and get_channel_name, called for each of the rendered rows
\* in turn; lines are the lines of the reply
C15_Names(rows, lines) ==
    /\ refreshes'.users =
           Misses([i \in 1..Len(rows) |-> rows[i].user], DOMAIN ENV.id_user, MemberIds)
    /\ refreshes'.channels =
           Misses([i \in 1..Len(rows) |-> rows[i].channel], DOMAIN ENV.id_channel, ListedIds)
    /\ Len(lines) = Len(rows)
    /\ \A i \in 1..Len(rows) :
           /\ lines[i].user = UserNameIn(rows[i].user)
           /\ lines[i].channel = ChannelNameIn(rows[i].channel)
    /\ refreshes'.users = 0 => (users' = users /\ ENV'.id_user = ENV.id_user)
    /\ refreshes'.channels = 0 => (channels' = channels /\ ENV'.id_channel = ENV.id_channel)

\* what handling a request with the tokens toks did to the directory
C15_Lookups(toks) ==
    /\ (Len(toks) = 1 /\ IsQualifier(toks[1], From)) =>
           C15_UserId(Remove(ValueOf(toks[1], From), "@"))
    /\ (Len(toks) = 1 /\ IsQualifier(toks[1], In)) =>
           C15_ChannelId(Remove(ValueOf(toks[1], In), "#"))
    /\ (\A i \in 1..Len(toks) : ~IsQualifier(toks[i], From) /\ ~IsQualifier(toks[i], In)) =>
           (RenderedOnly' => C15_Names(Rendered', LinesOf(Last(sent))'))

\* C15: each of get_user_id, get_user_name, get_channel_id and
\* get_channel_name refreshes the directory if and only if its key is not in
\* the cache when it is called; it returns what the cache then holds for the
\* key, None if it holds nothing; and a lookup that finds its key refreshes
\* nothing and writes nothing to the users and channels tables.
C15_LazyRefresh == [][IsQuery' => \A toks \in {Tokens'} : C15_Lookups(toks)]_vars

\* from:@bob was resolved by a refresh after bob had joined, and his messages
\* were rendered with his name without another refresh
C15_Witness ==
    /\ IsQuery /\ SingleToken(From)
    /\ parsed.user = U2
    /\ refreshes.users = 1
    /\ res # << >>
    /\ Len(sent) = 1 /\ \A i \in 1..Len(LinesOf(sent[1])) : LinesOf(sent[1])[i].user = Bob

-----------------------------------------------------------------------------
(* Properties of the rendering *)

Unresolved(r) == r.user \notin MemberIds \/ r.channel \notin ListedIds

\* lines render rows one by one, with the names the directory has
RenderedAs(rows, lines) ==
    /\ Len(lines) = Len(rows)
    /\ \A i \in 1..Len(rows) :
           /\ lines[i].msg = rows[i].message
           /\ lines[i].user = UserNameIn(rows[i].user)
           /\ lines[i].channel = ChannelNameIn(rows[i].channel)
           /\ lines[i].dt = rows[i].timestamp \div SubSec

\* C16: when the author or the channel of a message to render is not in the
\* directory, no exception is raised and the reply renders every message it
\* has to, this one with None for the missing name.
C16_RenderedAnyway ==
    (IsQuery /\ ~Invalid /\ \E i \in 1..Len(Rendered) : Unresolved(Rendered[i])) =>
        /\ raised = "none"
        /\ sent # << >>
        /\ RenderedAs(Rendered, LinesOf(Last(sent)))

\* one reply holds a message of an unknown author, one of an unlisted
\* channel and one with both names known
C16_Witness ==
    /\ IsQuery /\ Len(sent) = 1
    /\ \E i \in 1..Len(res) : res[i].user \notin MemberIds
    /\ \E i \in 1..Len(res) : res[i].channel \notin ListedIds
    /\ \E i \in 1..Len(res) : ~Unresolved(res[i])
    /\ \E p \in Range(sent[1].text.body) : p.t = "line" /\ p.user = NoneVal
    /\ \E p \in Range(sent[1].text.body) : p.t = "line" /\ p.user = Alice /\ p.channel = General

\* no two message lines of the text follow each other without a line break
OwnLines(body) ==
    \A i \in 1..(Len(body) - 1) : body[i].t = "line" => body[i + 1].t # "line"

\* C17: in every reply each rendered message is on a line of its own; the
\* last message of a before-block and the first of the after-block are on
\* separate lines.
C17_OneLineEach ==
    IsQuery => \A k \in 1..Len(sent) : OwnLines(sent[k].text.body)

-----------------------------------------------------------------------------
(* Properties of handle_message and of the loop *)

IsMessageChanged(e) == "subtype" \in e.keys /\ e.subtype = "message_changed"
CarriesText(e) == "text" \in e.keys \/ (IsMessageChanged(e) /\ "message" \in e.keys)
CarriesUser(e) ==
    "user" \in e.keys \/ (IsMessageChanged(e) /\ {"message", "previous_message"} \subseteq e.keys)
FromBot(e) == "username" \in e.keys /\ e.username = "bot"
IsDM(e) == e.channel[1] = "D"

\* the event asks for a search / is to be archived
Request(e) == e.type = "message" /\ IsDM(e) /\ CarriesText(e) /\ ~FromBot(e)
Archival(e) ==
    e.type = "message" /\ ~IsDM(e) /\ CarriesText(e) /\ CarriesUser(e) /\ ~FromBot(e)

\* the row an archival event stands for
RowOf(e) ==
    [message |-> IF IsMessageChanged(e) /\ "message" \in e.keys THEN e.message_text ELSE e.text,
     user |-> IF IsMessageChanged(e) /\ {"message", "previous_message"} \subseteq e.keys
              THEN e.prev_user ELSE e.user,
     channel |-> e.channel,
     timestamp |-> IF IsMessageChanged(e) /\ {"message", "previous_message"} \subseteq e.keys
                   THEN e.prev_ts ELSE e.ts]

\* the step wrote the row and nothing else
OneRowWritten(row) ==
    /\ messages' # << >>
    /\ Last(messages') = row
    /\ SubSeq(messages', 1, Len(messages') - 1) = SelectSeq(messages, LAMBDA r : ~SameKey(r, row))

\* what handling the event e did
C18_Handled(e) ==
    /\ IsDM(e) => messages' = messages
    /\ Request(e) => (sent' # << >> \/ selects' > 0)
    /\ (sent' # << >> \/ selects' > 0) => (Request(e) /\ messages' = messages)
    /\ messages' # messages => Archival(e)
    /\ Archival(e) => (OneRowWritten(RowOf(e)) /\ sent' = << >> /\ selects' = 0)

\* C18: an event is a search request or an archival, never both: a direct
\* message leaves the messages table as it is, and with a text it is handed
\* to handle_query; whatever is answered or searched writes nothing; the
\* table changes only for an event of another channel with text and user,
\* and for such an event exactly one row is written and nothing is answered.
C18_QueryOrArchive ==
    [][(pc = "rtm_read" /\ pc' = "handled") => \A e \in {ev'} : C18_Handled(e)]_vars

\* the edit of a direct message was answered while messages are stored
C18_Witness ==
    /\ Handled /\ IsMessageChanged(ev) /\ IsDM(ev)
    /\ sent # << >>
    /\ messages # << >>

\* the hits and the blocks of a request are read off the table as it was
\* when the request was accepted
C20_OneTable ==
    IsQuery' =>
        /\ messages' = messages
        /\ Range(res') \subseteq Range(messages)
        /\ \A i \in 1..Len(blocks') :
               /\ blocks'[i].hit \in Range(messages)
               /\ Range(blocks'[i].before) =
                      { m \in Range(messages) :
                          /\ m.channel = blocks'[i].hit.channel
                          /\ m.timestamp <= blocks'[i].hit.timestamp
                          /\ Cardinality({ x \in Range(messages) :
                                 /\ x.channel = m.channel
                                 /\ m.timestamp < x.timestamp
                                 /\ x.timestamp <= blocks'[i].hit.timestamp })
                                 <= parsed'.context }
               /\ Range(blocks'[i].after) =
                      { m \in Range(messages) :
                          /\ m.channel = blocks'[i].hit.channel
                          /\ m.timestamp > blocks'[i].hit.timestamp
                          /\ Cardinality({ x \in Range(messages) :
                                 /\ x.channel = m.channel
                                 /\ blocks'[i].hit.timestamp < x.timestamp
                                 /\ x.timestamp < m.timestamp })
                                 < parsed'.context }
        /\ (parsed'.context > 0 /\ raised' = "none" /\ parsed'.err = NoError) =>
               (Len(blocks') = Len(res') /\ selects' = 1 + 2 * Len(res'))

\* an event is accepted only when the one before it has been handled to the end
C20_OneAtATime ==
    (ev' # ev /\ ev' # NoEvent) => (pc = "rtm_read" /\ Waiting /\ pc' = "handled")

\* C20: a request's search and all its context statements are done before
\* the next event is accepted: they all read the table as it was when the
\* request came, no write comes in between, and an event is accepted only
\* when the one before it has been handled to the end.
C20_Sequential == [][C20_OneTable /\ C20_OneAtATime]_vars

\* a request with context was answered from a full table, each hit with
\* its block
C20_Witness ==
    /\ IsQuery /\ parsed.context = 1
    /\ Len(res) = MaxRows
    /\ Len(blocks) = MaxRows
    /\ \E i \in 1..Len(blocks) : Last(messages) \in Range(blocks[i].after)

\* after an exception, and after the websocket was closed, the loop goes on
C19_LoopGoesOn == [](raised # "none" => <>(pc = "rtm_read" /\ raised = "none"))

\* an event that rtm_read() has delivered is handled
C19_Delivered ==
    \A e \in BatchEvents : [](e \in Range(pending) => <>(Handled /\ ev = e))

\* C19: no error raised while an event is handled ends the loop: after an
\* exception of handle_message or handle_query, and after a closed
\* websocket, the loop goes on, and every event the transport delivers is
\* handled in the end.
C19_NothingLost == C19_LoopGoesOn /\ C19_Delivered

====
